---- MODULE Spec2Model ----
(***************************************************************************)
(* Vertex AI proxy: the gRPC server (src/src/server.ts) and the HTTP/SSE   *)
(* server (compiled JavaScript carried in src/CONTRIBUTING.md, lines       *)
(* 57-312).  One process of one variant is started from an environment,    *)
(* and then handles one request: gate, validation, request mapping,        *)
(* backend call, response mapping or streaming relay.                      *)
(***************************************************************************)
EXTENDS Integers, Sequences, FiniteSets, TLC

VARIABLES
    variant,        \* "grpc" (server.ts) or "http" (CONTRIBUTING.md server)
    env,            \* process.env, read once at module load
    proc,           \* "boot" | "exited" | "listening"
    req,            \* the request being handled, or NoReq
    pc,             \* position of the handler between its awaits
    backendCalls,   \* generateContent / generateContentStream calls issued
    contents,       \* the contents array handed to the backend call
    result,         \* result.response of the unary backend call, once resolved
    reply,          \* unary reply / HTTP response / emitted gRPC status
    replies,        \* number of replies sent (callback / res.send / res.json)
    headersSent,    \* HTTP: res.headersSent
    out,            \* chunks written to the client stream, in order
    closed,         \* call.end() / res.end() has been called
    src,            \* stub backend log: the parts it has yielded, in order
    pulled,         \* number of elements pulled from streamingResult.stream
    failed,         \* a failure (backend throw or client write throw) occurred
    cancelled,      \* the client has cancelled / disconnected
    wroteAfterCancel, \* a client write was attempted after the cancellation
    backendReleased, \* the backend stream was cancelled / released by the relay
    backendError,   \* the error the backend call threw, or NoError
    aggregatedResponse, \* finish reason of streamingResult.response, once resolved
    gateLog,        \* the lines the API-key gate wrote to the console
    calls,          \* SpecPair: the two concurrent streaming handlers' own state
    cli             \* SpecCli: the state of one interactive CLI session

vars == <<variant, env, proc, req, pc, backendCalls, contents, result, reply, replies,
          headersSent, out, closed, src, pulled, failed, cancelled,
          wroteAfterCancel, backendReleased, backendError, aggregatedResponse, gateLog, calls, cli>>

(***************************************************************************)
(* Bounds of the model.                                                    *)
(***************************************************************************)
MaxHistory == 2      \* turns in a request's history
MaxCandidates == 2   \* candidates in one backend result / stream element
MaxParts == 2        \* parts in one backend result / in one whole stream
MaxItems == 2        \* elements of one backend stream
MaxTurns == 2        \* inputs read in one interactive CLI session
MaxChunks == 2       \* chunks / events one CLI stream call delivers

(***************************************************************************)
(* JavaScript values.  undefined and null are two sentinel strings, so     *)
(* that every text stays comparable with every other.                      *)
(***************************************************************************)
Undefined == "$undefined"
Null == "$null"
NoReq == [path |-> "$none"]
NoReply == [code |-> "$none"]
NoResult == [candidates |-> <<>>, blockReason |-> "$none"]
NoError == "$none"
NotResolved == "$none"

IsString(t) == t # Undefined /\ t # Null
\* JavaScript truthiness of a string-or-undefined value: `if (x)` / `!x`.
Truthy(t) == t # Undefined /\ t # Null /\ t # ""
\* a ?? b
Coalesce(a, b) == IF a = Undefined \/ a = Null THEN b ELSE a
\* a || b
OrElse(a, b) == IF Truthy(a) THEN a ELSE b

SeqsUpTo(S, n) == UNION {[1..k -> S] : k \in 0..n}

RECURSIVE SelectIdx(_, _)
\* the subsequence of s at the positions where keep is TRUE (Array.filter)
SelectIdx(s, keep) ==
    IF s = <<>> THEN <<>>
    ELSE (IF Head(keep) THEN <<Head(s)>> ELSE <<>>) \o SelectIdx(Tail(s), Tail(keep))

(***************************************************************************)
(* Inputs.                                                                 *)
(***************************************************************************)
TheKey == "k1"
ClientKeys == {"k1", "k2", ""}
Prompts == {Undefined, "", "hi"}
Roles == {"user", "model"}
HistoryTexts == {"h"}
PartTexts == {Undefined, "", "a", "b"}
FinishReasons == {Undefined, "STOP"}
BlockReasons == {Undefined, "SAFETY"}
\* candidates[0].finishReason of the aggregated response of a stream
AggregatedReasons == {Undefined, "STOP", "MAX_TOKENS"}
\* error.message of a rejected backend call
ErrorDetails == {"429 quota exceeded", "403 permission denied on project p1"}

Turns == [role : Roles, parts : {<<[text |-> t]>> : t \in HistoryTexts}]
Histories == SeqsUpTo(Turns, MaxHistory)

\* candidate.content: absent (NoContent), or a role and one or more parts.
\* A content with an empty parts array takes the same branches as an absent
\* one in all four handlers and is not drawn separately.
NoContent == [role |-> Undefined, parts |-> <<>>]
BackendContents(b) ==
    {NoContent} \cup
    [role : {"model"}, parts : SeqsUpTo([text : PartTexts], b) \ {<<>>}]
NumParts(c) == IF c.content = NoContent THEN 0 ELSE Len(c.content.parts)

\* backend candidates with at most b parts
BackendCandidates(b) == [content : BackendContents(b), finishReason : FinishReasons]

RECURSIVE CandidateLists(_, _)
\* sequences of at most n backend candidates holding at most b parts in total
CandidateLists(n, b) ==
    IF n = 0 THEN {<<>>}
    ELSE {<<>>} \cup
         UNION {{<<c>> \o rest : rest \in CandidateLists(n - 1, b - NumParts(c))} :
                c \in BackendCandidates(b)}

\* result.response of generateContent: candidates may be absent (Undefined
\* is modelled by the empty list, which the code treats the same way)
UnaryResults ==
    [candidates : CandidateLists(MaxCandidates, MaxParts), blockReason : BlockReasons]

(***************************************************************************)
(* Startup: environment validation at module load.                         *)
(***************************************************************************)
EnvNames == {"EXPECTED_API_KEY", "GCP_PROJECT_ID", "GCP_REGION",
             "VERTEX_AI_MODEL_ID", "VERTEX_AI_ENDPOINT"}
Envs == [EnvNames -> BOOLEAN]

\* a startup check that leaves the expected key out
GrpcEnvMissingNoKey(e) ==
    ~e["GCP_PROJECT_ID"] \/ ~e["GCP_REGION"] \/ ~e["VERTEX_AI_MODEL_ID"]
\* server.ts:29
GrpcEnvMissing(e) ==
    ~e["GCP_PROJECT_ID"] \/ ~e["GCP_REGION"] \/ ~e["VERTEX_AI_MODEL_ID"]
        \/ ~e["EXPECTED_API_KEY"]

\* CONTRIBUTING.md:75
HttpEnvMissing(e) ==
    ~e["GCP_PROJECT_ID"] \/ ~e["GCP_REGION"] \/ ~e["VERTEX_AI_ENDPOINT"]
        \/ ~e["VERTEX_AI_MODEL_ID"]

EXPECTED_API_KEY == IF env["EXPECTED_API_KEY"] THEN TheKey ELSE Undefined

\* the two streaming handlers that run concurrently in SpecPair, and the
\* state each of them owns: its call / res object and its streamingResult
Handlers == {1, 2}
NewCall == [pc |-> "idle", src |-> <<>>, out |-> <<>>, pulled |-> 0, closed |-> FALSE]

\* an interactive CLI session before its command has run.  Calls are
\* numbered by the turn that made them; currentCall = 0 stands for null.
NewCli ==
    [mode |-> "none", phase |-> "idle", turn |-> 0, input |-> Undefined,
     history |-> <<>>, pushedIn |-> <<>>,
     currentCall |-> 0, active |-> {}, cancelled |-> {}, delivered |-> {},
     chunks |-> 0, received |-> <<>>, accumulatedResponse |-> "",
     receivedError |-> FALSE, sentPrompt |-> Undefined, sentHistory |-> <<>>]

Init ==
    /\ variant \in {"grpc", "http"}
    /\ env \in Envs
    /\ variant = "grpc" => ~env["VERTEX_AI_ENDPOINT"]
    /\ proc = "boot"
    /\ req = NoReq
    /\ pc = "idle"
    /\ backendCalls = 0
    /\ contents = <<>>
    /\ result = NoResult
    /\ reply = NoReply
    /\ replies = 0
    /\ headersSent = FALSE
    /\ out = <<>>
    /\ closed = FALSE
    /\ src = <<>>
    /\ pulled = 0
    /\ failed = FALSE
    /\ cancelled = FALSE
    /\ wroteAfterCancel = FALSE
    /\ backendReleased = FALSE
    /\ backendError = NoError
    /\ aggregatedResponse = NotResolved
    /\ gateLog = <<>>
    /\ calls = [h \in Handlers |-> NewCall]
    /\ cli = NewCli

\* module load up to server.bindAsync / app.listen
Startup ==
    /\ proc = "boot"
    /\ proc' = IF (variant = "grpc" /\ GrpcEnvMissing(env))
                   \/ (variant = "http" /\ HttpEnvMissing(env))
               THEN "exited" ELSE "listening"
    /\ UNCHANGED <<variant, env, req, pc, backendCalls, contents, result, reply, replies,
                   headersSent, out, closed, src, pulled, failed, cancelled,
                   wroteAfterCancel, backendReleased, backendError, aggregatedResponse,
                   gateLog, calls, cli>>

(***************************************************************************)
(* Requests.  A gRPC call carries its key in metadata (metadata.get        *)
(* returns the list of values of the key), an HTTP request in a header.    *)
(* proto-loader decodes an absent prompt as "" (defaults: true).           *)
(***************************************************************************)
GrpcRequests ==
    [path : {"Chat", "StreamChat"},
     metadata : {<<>>} \cup {<<k>> : k \in ClientKeys},
     header : {Undefined},
     prompt : Prompts \ {Undefined},
     history : Histories]

HttpRequests ==
    [path : {"/v1/chat", "/v1/chat/stream", "/_health"},
     metadata : {<<>>},
     header : {Undefined} \cup ClientKeys,
     prompt : Prompts,
     history : Histories]

\* the key the client supplied, Undefined when it supplied none
SuppliedKey(r) ==
    IF variant = "grpc"
    THEN (IF Len(r.metadata) = 0 THEN Undefined ELSE r.metadata[1])
    ELSE r.header

Reply(code, candidates, error, text) ==
    [code |-> code, candidates |-> candidates, error |-> error, text |-> text]

(***************************************************************************)
(* API-key gate.                                                           *)
(***************************************************************************)
\* a gate that checks only that a key is present
checkApiKeyNoCompare(r) == ~(Len(r.metadata) = 0)
\* server.ts:70-78
checkApiKey(r) ==
    ~(Len(r.metadata) = 0 \/ r.metadata[1] # EXPECTED_API_KEY)

\* a gate without the check that the expected key is configured
apiKeyMiddlewareNoConfigCheck(r) ==
    IF ~Truthy(r.header) \/ r.header # EXPECTED_API_KEY
    THEN Reply("401", <<>>, "Unauthorized: Invalid or missing API Key", Undefined)
    ELSE Reply("next", <<>>, Undefined, Undefined)
\* CONTRIBUTING.md:86-99; "next" when the request is let through
apiKeyMiddleware(r) ==
    IF ~Truthy(EXPECTED_API_KEY)
    THEN Reply("500", <<>>, "Server configuration error", Undefined)
    ELSE IF ~Truthy(r.header) \/ r.header # EXPECTED_API_KEY
    THEN Reply("401", <<>>, "Unauthorized: Invalid or missing API Key", Undefined)
    ELSE Reply("next", <<>>, Undefined, Undefined)

\* one console line: its level, its fixed text and the values interpolated
\* into it
LogLine(level, text, args) == [level |-> level, text |-> text, args |-> args]

\* server.ts:73-76: what checkApiKey logs
checkApiKeyLog(r) ==
    IF ~checkApiKey(r)
    THEN <<LogLine("warn", "Unauthorized access attempt: Missing or incorrect API key.",
                   <<>>)>>
    ELSE <<>>

\* a gate that writes the offered key into its log line
apiKeyMiddlewareLogWithKey(r) ==
    IF apiKeyMiddleware(r).code = "next" THEN <<>>
    ELSE <<LogLine("warn", "Unauthorized access attempt: Missing or incorrect API key. Path: ",
                   <<r.path, r.header>>)>>
\* CONTRIBUTING.md:89-97: what apiKeyMiddleware logs
apiKeyMiddlewareLog(r) ==
    IF ~Truthy(EXPECTED_API_KEY)
    THEN <<LogLine("error",
                   "FATAL SERVER ERROR: EXPECTED_API_KEY environment variable is not set!",
                   <<>>)>>
    ELSE IF ~Truthy(r.header) \/ r.header # EXPECTED_API_KEY
    THEN <<LogLine("warn", "Unauthorized access attempt: Missing or incorrect API key. Path: ",
                   <<r.path>>)>>
    ELSE <<>>

(***************************************************************************)
(* Request mapper.                                                         *)
(***************************************************************************)
\* a mapper that loses the last turn of the history
mapProtoHistoryToVertexDropLast(protoHistory) ==
    [i \in 1..(Len(protoHistory) - 1) |->
        [role |-> protoHistory[i].role,
         parts |-> [j \in 1..Len(protoHistory[i].parts) |->
                        [text |-> protoHistory[i].parts[j].text]]]]
\* server.ts:81-86
mapProtoHistoryToVertex(protoHistory) ==
    [i \in 1..Len(protoHistory) |->
        [role |-> protoHistory[i].role,
         parts |-> [j \in 1..Len(protoHistory[i].parts) |->
                        [text |-> protoHistory[i].parts[j].text]]]]

\* a check for an absent prompt only, which lets the empty string through
MissingPromptOnlyUndefined(userPrompt) == userPrompt = Undefined
\* server.ts:101 and 163, CONTRIBUTING.md:131 and 208: `!userPrompt`
MissingPrompt(userPrompt) == ~Truthy(userPrompt)

UserTurn(userPrompt) == [role |-> "user", parts |-> <<[text |-> userPrompt]>>]

\* server.ts:106-110 and 170-174
GrpcContents(r) == mapProtoHistoryToVertex(r.history) \o <<UserTurn(r.prompt)>>
\* CONTRIBUTING.md:136-139 and 218-221
HttpContents(r) == r.history \o <<UserTurn(r.prompt)>>

(***************************************************************************)
(* Response mapper, unary.                                                 *)
(***************************************************************************)
SorryText == "Sorry, I could not generate a response."
\* the template literal `Response blocked: ${blockReason}`
BlockedText(blockReason) ==
    CASE blockReason = "SAFETY" -> "Response blocked: SAFETY"
      [] OTHER -> "Response blocked: ?"

\* server.ts:122-129: every backend candidate is mapped, none is dropped
GrpcMapCandidate(c) ==
    [content |->
        [role |-> IF c.content = NoContent THEN "model"
                  ELSE Coalesce(c.content.role, "model"),
         parts |-> IF c.content = NoContent THEN <<>>
                   ELSE [j \in 1..Len(c.content.parts) |->
                            [text |-> Coalesce(c.content.parts[j].text, "")]]],
     finishReason |-> Coalesce(c.finishReason, "")]

\* a mapper that returns the candidates last one first
GrpcChatPayloadReversed(res) ==
    IF Len(res.candidates) > 0
    THEN Reply("OK", [i \in 1..Len(res.candidates) |->
                         GrpcMapCandidate(res.candidates[Len(res.candidates) + 1 - i])],
               Null, Undefined)
    ELSE Reply("OK", <<>>,
               IF Truthy(res.blockReason) THEN BlockedText(res.blockReason) ELSE SorryText,
               Undefined)
\* server.ts:119-142
GrpcChatPayload(res) ==
    IF Len(res.candidates) > 0
    THEN Reply("OK", [i \in 1..Len(res.candidates) |-> GrpcMapCandidate(res.candidates[i])],
               Null, Undefined)
    ELSE Reply("OK", <<>>,
               IF Truthy(res.blockReason) THEN BlockedText(res.blockReason) ELSE SorryText,
               Undefined)

\* a mapper that keeps the parts that carry no text as well
HttpMappedPartsKeepAll(c) ==
    IF c.content = NoContent THEN <<>> ELSE c.content.parts
\* CONTRIBUTING.md:157-171: the parts of a candidate whose text is a string
HttpMappedParts(c) ==
    IF c.content = NoContent THEN <<>>
    ELSE SelectIdx(c.content.parts,
                   [j \in 1..Len(c.content.parts) |-> IsString(c.content.parts[j].text)])

\* CONTRIBUTING.md:173-179
HttpMapCandidate(c) ==
    [content |-> [role |-> c.content.role, parts |-> HttpMappedParts(c)],
     finishReason |-> c.finishReason]

SyntheticCandidate(text) ==
    [content |-> [role |-> "model", parts |-> <<[text |-> text]>>],
     finishReason |-> Undefined]

\* a mapper that keeps every candidate, also one left without parts
HttpChatPayloadKeepAll(res) ==
    Reply("200", [i \in 1..Len(res.candidates) |-> HttpMapCandidate(res.candidates[i])],
          Undefined, Undefined)
\* CONTRIBUTING.md:152-195
HttpChatPayload(res) ==
    IF Len(res.candidates) > 0
    THEN Reply("200",
               LET mapped == [i \in 1..Len(res.candidates) |->
                                 HttpMapCandidate(res.candidates[i])]
               IN  SelectIdx(mapped, [i \in 1..Len(mapped) |->
                                         Len(mapped[i].content.parts) > 0]),
               Undefined, Undefined)
    ELSE Reply("200",
               <<SyntheticCandidate(IF Truthy(res.blockReason)
                                    THEN BlockedText(res.blockReason)
                                    ELSE SorryText)>>,
               Undefined, Undefined)

(***************************************************************************)
(* Unary handlers.  An action is one synchronous run of the handler, from  *)
(* its entry or from the await it was suspended at.                        *)
(***************************************************************************)
\* a catch block that hands the caught error's message to the client
GrpcChatFailureLeaks(error) == Reply("INTERNAL", <<>>, error, Undefined)
\* server.ts:144-147: the reply of the catch block; the caught error is
\* logged and not read again
GrpcChatFailure(error) == Reply("INTERNAL", <<>>, "Internal Server Error", Undefined)
\* CONTRIBUTING.md:197-200
HttpChatFailure(error) == Reply("500", <<>>, "Internal Server Error", Undefined)

StreamUnchanged ==
    UNCHANGED <<headersSent, out, closed, src, pulled, failed, cancelled,
                wroteAfterCancel, backendReleased, aggregatedResponse, calls, cli>>

\* a reply that is sent twice
RespondTwice(r) ==
    /\ reply' = r
    /\ replies' = replies + 2
    /\ pc' = "done"
Respond(r) ==
    /\ reply' = r
    /\ replies' = replies + 1
    /\ pc' = "done"

\* a handler that validates the prompt before it asks the gate
chatValidatesFirst ==
    /\ proc = "listening" /\ variant = "grpc" /\ pc = "idle" /\ req = NoReq
    /\ \E r \in GrpcRequests :
        /\ r.path = "Chat"
        /\ req' = r
        /\ IF MissingPrompt(r.prompt)
           THEN /\ Respond(Reply("INVALID_ARGUMENT", <<>>, "Missing prompt", Undefined))
                /\ UNCHANGED <<backendCalls, contents, gateLog>>
           ELSE IF ~checkApiKey(r)
           THEN /\ Respond(Reply("UNAUTHENTICATED", <<>>, "Invalid or missing API Key", Undefined))
                /\ gateLog' = gateLog \o checkApiKeyLog(r)
                /\ UNCHANGED <<backendCalls, contents>>
           ELSE /\ contents' = GrpcContents(r)
                /\ backendCalls' = backendCalls + 1
                /\ pc' = "chat_await"
                /\ UNCHANGED <<reply, replies, gateLog>>
    /\ UNCHANGED <<variant, env, proc, result, backendError>>
    /\ StreamUnchanged
\* server.ts:91-115, up to `await generativeModel.generateContent`
chat ==
    /\ proc = "listening" /\ variant = "grpc" /\ pc = "idle" /\ req = NoReq
    /\ \E r \in GrpcRequests :
        /\ r.path = "Chat"
        /\ req' = r
        /\ IF ~checkApiKey(r)
           THEN /\ Respond(Reply("UNAUTHENTICATED", <<>>, "Invalid or missing API Key", Undefined))
                /\ UNCHANGED <<backendCalls, contents>>
           ELSE IF MissingPrompt(r.prompt)
           THEN /\ Respond(Reply("INVALID_ARGUMENT", <<>>, "Missing prompt", Undefined))
                /\ UNCHANGED <<backendCalls, contents>>
           ELSE /\ contents' = GrpcContents(r)
                /\ backendCalls' = backendCalls + 1
                /\ pc' = "chat_await"
                /\ UNCHANGED <<reply, replies>>
        /\ gateLog' = gateLog \o checkApiKeyLog(r)
    /\ UNCHANGED <<variant, env, proc, result, backendError>>
    /\ StreamUnchanged

\* server.ts:116-142: generateContent resolved
chatResolved ==
    /\ variant = "grpc" /\ pc = "chat_await"
    /\ \E res \in UnaryResults :
        /\ result' = res
        /\ Respond(GrpcChatPayload(res))
    /\ UNCHANGED <<variant, env, proc, req, backendCalls, contents, backendError, gateLog>>
    /\ StreamUnchanged

\* a catch block that issues the backend call once more
chatRejectedRetry ==
    /\ variant = "grpc" /\ pc = "chat_await" /\ backendCalls < 3
    /\ backendCalls' = backendCalls + 1
    /\ backendError' \in ErrorDetails
    /\ failed' = TRUE
    /\ UNCHANGED <<variant, env, proc, req, pc, contents, result, reply, replies, headersSent,
                   out, closed, src, pulled, cancelled, wroteAfterCancel, backendReleased,
                   aggregatedResponse, gateLog, calls, cli>>
\* server.ts:144-147: generateContent rejected
chatRejected ==
    /\ variant = "grpc" /\ pc = "chat_await"
    /\ \E error \in ErrorDetails :
        /\ backendError' = error
        /\ Respond(GrpcChatFailure(error))
    /\ failed' = TRUE
    /\ UNCHANGED <<variant, env, proc, req, backendCalls, contents, result, headersSent, out,
                   closed, src, pulled, cancelled, wroteAfterCancel, backendReleased,
                   aggregatedResponse, gateLog, calls, cli>>

\* CONTRIBUTING.md:101 and 126-148: middleware, then the route up to its await
httpChat ==
    /\ proc = "listening" /\ variant = "http" /\ pc = "idle" /\ req = NoReq
    /\ \E r \in HttpRequests :
        /\ r.path = "/v1/chat"
        /\ req' = r
        /\ IF apiKeyMiddleware(r).code # "next"
           THEN /\ Respond(apiKeyMiddleware(r))
                /\ UNCHANGED <<backendCalls, contents>>
           ELSE IF MissingPrompt(r.prompt)
           THEN /\ Respond(Reply("400", <<>>, Undefined, Undefined))
                /\ UNCHANGED <<backendCalls, contents>>
           ELSE /\ contents' = HttpContents(r)
                /\ backendCalls' = backendCalls + 1
                /\ pc' = "httpChat_await"
                /\ UNCHANGED <<reply, replies>>
        /\ gateLog' = gateLog \o apiKeyMiddlewareLog(r)
    /\ UNCHANGED <<variant, env, proc, result, backendError>>
    /\ StreamUnchanged

\* CONTRIBUTING.md:149-195
httpChatResolved ==
    /\ variant = "http" /\ pc = "httpChat_await"
    /\ \E res \in UnaryResults :
        /\ result' = res
        /\ Respond(HttpChatPayload(res))
    /\ UNCHANGED <<variant, env, proc, req, backendCalls, contents, backendError, gateLog>>
    /\ StreamUnchanged

\* CONTRIBUTING.md:197-200
httpChatRejected ==
    /\ variant = "http" /\ pc = "httpChat_await"
    /\ \E error \in ErrorDetails :
        /\ backendError' = error
        /\ Respond(HttpChatFailure(error))
    /\ failed' = TRUE
    /\ UNCHANGED <<variant, env, proc, req, backendCalls, contents, result, headersSent, out,
                   closed, src, pulled, cancelled, wroteAfterCancel, backendReleased,
                   aggregatedResponse, gateLog, calls, cli>>

\* CONTRIBUTING.md:101 and 299-301: the middleware is registered before the route
httpHealth ==
    /\ proc = "listening" /\ variant = "http" /\ pc = "idle" /\ req = NoReq
    /\ \E r \in HttpRequests :
        /\ r.path = "/_health"
        /\ req' = r
        /\ IF apiKeyMiddleware(r).code # "next"
           THEN Respond(apiKeyMiddleware(r))
           ELSE Respond(Reply("200", <<>>, Undefined, "OK"))
        /\ gateLog' = gateLog \o apiKeyMiddlewareLog(r)
    /\ UNCHANGED <<variant, env, proc, backendCalls, contents, result, backendError>>
    /\ StreamUnchanged

(***************************************************************************)
(* Streaming relay.                                                        *)
(***************************************************************************)
Chunk(text, role, finishReason, error, final) ==
    [text |-> text, role |-> role, finishReason |-> finishReason,
     error |-> error, is_final_chunk |-> final]

\* the parts of one stream element in the order the nested forEach visits
\* them: candidates in order, the parts of each candidate in order
RECURSIVE ItemParts(_)
ItemParts(item) ==
    IF item = <<>> THEN <<>>
    ELSE LET c == Head(item)
         IN  (IF c.content = NoContent THEN <<>>
              ELSE [j \in 1..Len(c.content.parts) |->
                       [text |-> c.content.parts[j].text,
                        role |-> c.content.role,
                        finishReason |-> c.finishReason]])
             \o ItemParts(Tail(item))

\* a relay that passes on the text "a" alone
GrpcEmitsOnlyA(p) == p.text = "a"
\* server.ts:188: `if (part.text)`
GrpcEmits(p) == Truthy(p.text)
\* CONTRIBUTING.md:241: `typeof part.text === 'string'`
HttpEmits(p) == IsString(p.text)

\* server.ts:189-194
GrpcChunk(p) == Chunk(p.text, Undefined, Coalesce(p.finishReason, Null), Null, FALSE)
\* CONTRIBUTING.md:244-248
HttpChunk(p) ==
    Chunk(p.text, OrElse(p.role, "model"), OrElse(p.finishReason, Null), Undefined, FALSE)

\* a relay that writes the chunks of an element last part first
GrpcChunksReversed(parts) ==
    LET kept == SelectIdx(parts, [j \in 1..Len(parts) |-> GrpcEmits(parts[j])])
    IN  [j \in 1..Len(kept) |-> GrpcChunk(kept[Len(kept) + 1 - j])]
\* a relay that holds the last chunk of an element back
GrpcChunksHoldBack(parts) ==
    LET kept == SelectIdx(parts, [j \in 1..Len(parts) |-> GrpcEmits(parts[j])])
    IN  [j \in 1..(Len(kept) - 1) |-> GrpcChunk(kept[j])]
\* the chunks one stream element makes the relay write, in order
GrpcChunks(parts) ==
    LET kept == SelectIdx(parts, [j \in 1..Len(parts) |-> GrpcEmits(parts[j])])
    IN  [j \in 1..Len(kept) |-> GrpcChunk(kept[j])]
HttpChunks(parts) ==
    LET kept == SelectIdx(parts, [j \in 1..Len(parts) |-> HttpEmits(parts[j])])
    IN  [j \in 1..Len(kept) |-> HttpChunk(kept[j])]

\* a final chunk that ignores the aggregated result
GrpcFinalChunkAlwaysStop(aggregated) == Chunk("", Undefined, "STOP", Null, TRUE)
\* server.ts:207-215
GrpcFinalChunk(aggregated) == Chunk("", Undefined, Coalesce(aggregated, "STOP"), Null, TRUE)
\* an error chunk without the final-chunk marker
GrpcErrorChunkNotFinal == Chunk("", Undefined, Undefined, "Internal Server Error", FALSE)
\* server.ts:225
GrpcErrorChunk == Chunk("", Undefined, Undefined, "Internal Server Error", TRUE)
\* CONTRIBUTING.md:259-264
HttpDoneEvent(aggregated) ==
    Chunk("[DONE]", Undefined, OrElse(aggregated, "STOP"), Undefined, FALSE)
\* CONTRIBUTING.md:272 and 289
HttpErrorEvent(message) == Chunk(Undefined, Undefined, Undefined, message, FALSE)

Prefix(s, k) == SubSeq(s, 1, k)

\* a catch block that leaves the call open
GrpcCatchNoEnd(written) ==
    /\ \E ok \in BOOLEAN :
        out' = IF ok THEN Append(written, GrpcErrorChunk) ELSE written
    /\ UNCHANGED closed
    /\ failed' = TRUE
    /\ wroteAfterCancel' = (wroteAfterCancel \/ cancelled)
    /\ pc' = "done"
\* server.ts:221-230: one best-effort write, then call.end() in every case
GrpcCatch(written) ==
    /\ \E ok \in BOOLEAN :
        out' = IF ok THEN Append(written, GrpcErrorChunk) ELSE written
    /\ closed' = TRUE
    /\ failed' = TRUE
    /\ wroteAfterCancel' = (wroteAfterCancel \/ cancelled)
    /\ pc' = "done"

\* CONTRIBUTING.md:268-278 and 286-294: res.end() follows res.write inside
\* the same try block, so it is skipped when the write throws
HttpCatch(written, message) ==
    /\ \E ok \in BOOLEAN :
        /\ out' = IF ok THEN Append(written, HttpErrorEvent(message)) ELSE written
        /\ closed' = ok
    /\ failed' = TRUE
    /\ wroteAfterCancel' = (wroteAfterCancel \/ cancelled)
    /\ pc' = "done"

\* the elements the stub backend may yield next
StreamItems == [b \in 0..MaxParts |-> CandidateLists(MaxCandidates, b)]
NextItems == StreamItems[MaxParts - Len(src)]

\* server.ts:151-179, up to `await generativeModel.generateContentStream`
streamChatOn(requests) ==
    /\ proc = "listening" /\ variant = "grpc" /\ pc = "idle" /\ req = NoReq
    /\ \E r \in requests :
        /\ r.path = "StreamChat"
        /\ req' = r
        /\ IF ~checkApiKey(r)
           THEN /\ reply' = Reply("UNAUTHENTICATED", <<>>, "Invalid or missing API Key", Undefined)
                /\ closed' = TRUE
                /\ pc' = "done"
                /\ UNCHANGED <<backendCalls, contents>>
           ELSE IF MissingPrompt(r.prompt)
           THEN /\ reply' = Reply("INVALID_ARGUMENT", <<>>, "Missing prompt", Undefined)
                /\ closed' = TRUE
                /\ pc' = "done"
                /\ UNCHANGED <<backendCalls, contents>>
           ELSE /\ contents' = GrpcContents(r)
                /\ backendCalls' = backendCalls + 1
                /\ pc' = "stream_open"
                /\ UNCHANGED <<reply, closed>>
        /\ gateLog' = gateLog \o checkApiKeyLog(r)
    /\ UNCHANGED <<variant, env, proc, result, replies, headersSent, out, src, pulled, failed,
                   cancelled, wroteAfterCancel, backendReleased, backendError, aggregatedResponse,
                   calls, cli>>

\* CONTRIBUTING.md:101 and 203-229
httpChatStreamOn(requests) ==
    /\ proc = "listening" /\ variant = "http" /\ pc = "idle" /\ req = NoReq
    /\ \E r \in requests :
        /\ r.path = "/v1/chat/stream"
        /\ req' = r
        /\ IF apiKeyMiddleware(r).code # "next"
           THEN /\ Respond(apiKeyMiddleware(r))
                /\ closed' = TRUE
                /\ headersSent' = TRUE
                /\ UNCHANGED <<backendCalls, contents>>
           ELSE IF MissingPrompt(r.prompt)
           THEN /\ Respond(Reply("400", <<>>, "Missing prompt in request body", Undefined))
                /\ closed' = TRUE
                /\ headersSent' = TRUE
                /\ UNCHANGED <<backendCalls, contents>>
           ELSE /\ headersSent' = TRUE
                /\ contents' = HttpContents(r)
                /\ backendCalls' = backendCalls + 1
                /\ pc' = "stream_open"
                /\ UNCHANGED <<reply, replies, closed>>
        /\ gateLog' = gateLog \o apiKeyMiddlewareLog(r)
    /\ UNCHANGED <<variant, env, proc, result, out, src, pulled, failed,
                   cancelled, wroteAfterCancel, backendReleased, backendError, aggregatedResponse,
                   calls, cli>>

\* generateContentStream resolved: the for-await loop asks for the first element
streamOpened ==
    /\ pc = "stream_open"
    /\ pc' = "stream_next"
    /\ UNCHANGED <<variant, env, proc, req, backendCalls, contents, result, reply, replies,
                   headersSent, out, closed, src, pulled, failed, cancelled,
                   wroteAfterCancel, backendReleased, backendError, aggregatedResponse,
                   gateLog, calls, cli>>

\* server.ts:183-203 / CONTRIBUTING.md:235-255: one iteration of the loop.
\* Write number failAt throws (0: none does) and control passes to the catch.
streamItem ==
    /\ pc = "stream_next" /\ pulled < MaxItems
    /\ \E item \in NextItems :
        LET parts == ItemParts(item)
            chunks == IF variant = "grpc" THEN GrpcChunks(parts) ELSE HttpChunks(parts)
        IN  /\ src' = src \o parts
            /\ pulled' = pulled + 1
            /\ \E failAt \in 0..Len(chunks) :
                IF failAt = 0
                THEN /\ out' = out \o chunks
                     /\ wroteAfterCancel' = (wroteAfterCancel \/ (cancelled /\ Len(chunks) > 0))
                     /\ UNCHANGED <<pc, closed, failed>>
                ELSE IF variant = "grpc"
                     THEN GrpcCatch(out \o Prefix(chunks, failAt - 1))
                     ELSE HttpCatch(out \o Prefix(chunks, failAt - 1), "Stream processing error")
    /\ UNCHANGED <<variant, env, proc, req, backendCalls, contents, result, reply, replies,
                   headersSent, cancelled, backendReleased, backendError, aggregatedResponse,
                   gateLog, calls, cli>>

\* server.ts:205-219 / CONTRIBUTING.md:256-266: the stream is exhausted, the
\* aggregated response resolves, the final chunk is written and the stream
\* ended; the write of the final chunk may throw
streamFinal ==
    /\ pc = "stream_next"
    /\ \E finishReason \in AggregatedReasons, ok \in BOOLEAN :
        /\ aggregatedResponse' = finishReason
        /\ IF ok
           THEN /\ out' = Append(out, IF variant = "grpc" THEN GrpcFinalChunk(finishReason)
                                      ELSE HttpDoneEvent(finishReason))
                /\ closed' = TRUE
                /\ wroteAfterCancel' = (wroteAfterCancel \/ cancelled)
                /\ pc' = "done"
                /\ UNCHANGED failed
           ELSE IF variant = "grpc" THEN GrpcCatch(out)
                ELSE HttpCatch(out, "Stream processing error")
    /\ UNCHANGED <<variant, env, proc, req, backendCalls, contents, result, reply, replies,
                   headersSent, src, pulled, cancelled, backendReleased, backendError,
                   gateLog, calls, cli>>

\* generateContentStream, the stream or the aggregated response rejects
streamThrows ==
    /\ pc \in {"stream_open", "stream_next"}
    /\ IF variant = "grpc" THEN GrpcCatch(out)
       ELSE HttpCatch(out, IF pc = "stream_open" THEN "Internal Server Error"
                           ELSE "Stream processing error")
    /\ backendError' \in ErrorDetails
    /\ UNCHANGED <<variant, env, proc, req, backendCalls, contents, result, reply, replies,
                   headersSent, src, pulled, cancelled, backendReleased, aggregatedResponse,
                   gateLog, calls, cli>>

\* the client cancels the call / closes the connection while the handler is
\* suspended; neither handler registers a listener for it
clientCancel ==
    /\ pc \in {"stream_open", "stream_next"}
    /\ ~cancelled
    /\ cancelled' = TRUE
    /\ UNCHANGED <<variant, env, proc, req, pc, backendCalls, contents, result, reply, replies,
                   headersSent, out, closed, src, pulled, failed,
                   wroteAfterCancel, backendReleased, backendError, aggregatedResponse,
                   gateLog, calls, cli>>

(***************************************************************************)
(* Spec: startup, the gate, validation, the request mapper and the unary   *)
(* response mapper, for every request; a streaming request is followed up  *)
(* to the backend call it issues and to that call's rejection.             *)
(***************************************************************************)
streamChat == streamChatOn(GrpcRequests)
httpChatStream == httpChatStreamOn(HttpRequests)

Next ==
    \/ Startup
    \/ chat \/ chatResolved \/ chatRejected
    \/ httpChat \/ httpChatResolved \/ httpChatRejected
    \/ httpHealth
    \/ streamChat \/ httpChatStream
    \/ streamThrows

Spec == Init /\ [][Next]_vars

(***************************************************************************)
(* SpecRelay: streaming requests from their arrival to the end of the      *)
(* relay.  The relay never reads the history, so the requests carry none.  *)
(***************************************************************************)
streamChatRelay == streamChatOn({r \in GrpcRequests : r.history = <<>>})
httpChatStreamRelay == httpChatStreamOn({r \in HttpRequests : r.history = <<>>})

NextRelay ==
    \/ Startup
    \/ streamChatRelay \/ httpChatStreamRelay
    \/ streamOpened \/ streamItem \/ streamFinal \/ streamThrows
    \/ clientCancel

SpecRelay == Init /\ [][NextRelay]_vars

\* SpecGrpcRelayFair: the gRPC server, started from a complete environment,
\* relaying one StreamChat call.  Every await of the relay settles:
\* generateContentStream resolves or rejects, and the finite backend stream
\* yields its next element, ends or throws.  streamChat registers no
\* cancellation listener, so a cancellation changes none of its steps and
\* is left out here.
InitGrpc ==
    /\ Init
    /\ variant = "grpc"
    /\ ~GrpcEnvMissing(env)

NextGrpcRelay ==
    \/ Startup
    \/ streamChatRelay
    \/ streamOpened \/ streamItem \/ streamFinal \/ streamThrows

SpecGrpcRelayFair ==
    /\ InitGrpc /\ [][NextGrpcRelay]_vars
    /\ WF_vars(streamOpened \/ streamItem \/ streamFinal \/ streamThrows)

(***************************************************************************)
(* SpecPair: two streaming requests, both past the gate and the            *)
(* validation, relayed concurrently.  The handler of a request is a        *)
(* closure over its own call / res and its own streamingResult; the        *)
(* module-level values it reads (generativeModel, EXPECTED_API_KEY) are    *)
(* never assigned after startup.  A step is one synchronous run of one     *)
(* handler, and the steps of the two handlers interleave freely.           *)
(***************************************************************************)
\* what the backend may yield next on the stream of handler h: nothing, or
\* one candidate with one part; the two backend streams carry different texts
PairItems(h) ==
    {<<>>} \cup
    {<<[content |-> [role |-> "model", parts |-> <<[text |-> t]>>],
        finishReason |-> Undefined]>> : t \in {IF h = 1 THEN "a" ELSE "b", ""}}

\* a relay that writes to the call of the first handler, kept at module level
WriteToFirst(cs, h, chunks) == [cs EXCEPT ![1].out = @ \o chunks]
\* server.ts:196 and 217 / CONTRIBUTING.md:249 and 264: call.write / res.write
\* on the handler's own parameter
WriteTo(cs, h, chunks) == [cs EXCEPT ![h].out = @ \o chunks]

RequestUnchanged0 ==
    UNCHANGED <<variant, env, proc, req, pc, backendCalls, contents, result, reply, replies,
                headersSent, out, closed, src, pulled, failed, cancelled,
                wroteAfterCancel, backendReleased, backendError, aggregatedResponse,
                gateLog, calls>>

RequestUnchanged ==
    UNCHANGED <<variant, env, proc, req, pc, backendCalls, contents, result, reply, replies,
                headersSent, out, closed, src, pulled, failed, cancelled,
                wroteAfterCancel, backendReleased, backendError, aggregatedResponse,
                gateLog, cli>>

\* server.ts:151-179 / CONTRIBUTING.md:203-229: the handler runs up to
\* `await generativeModel.generateContentStream`
pairStart ==
    /\ proc = "listening"
    /\ \E h \in Handlers :
        /\ calls[h].pc = "idle"
        /\ calls' = [calls EXCEPT ![h].pc = "stream_open"]
    /\ RequestUnchanged

\* generateContentStream resolved: the loop asks for the first element
pairOpened ==
    /\ \E h \in Handlers :
        /\ calls[h].pc = "stream_open"
        /\ calls' = [calls EXCEPT ![h].pc = "stream_next"]
    /\ RequestUnchanged

\* server.ts:183-203 / CONTRIBUTING.md:235-255: one iteration of the loop
pairItem ==
    /\ \E h \in Handlers :
        /\ calls[h].pc = "stream_next" /\ calls[h].pulled < MaxItems
        /\ \E item \in PairItems(h) :
            LET parts == ItemParts(item)
                chunks == IF variant = "grpc" THEN GrpcChunks(parts) ELSE HttpChunks(parts)
            IN  calls' = [WriteTo(calls, h, chunks) EXCEPT
                              ![h].src = @ \o parts, ![h].pulled = @ + 1]
    /\ RequestUnchanged

\* server.ts:205-219 / CONTRIBUTING.md:256-266
pairFinal ==
    /\ \E h \in Handlers :
        /\ calls[h].pc = "stream_next"
        /\ \E finishReason \in FinishReasons :
            calls' = [WriteTo(calls, h, <<IF variant = "grpc"
                                          THEN GrpcFinalChunk(finishReason)
                                          ELSE HttpDoneEvent(finishReason)>>) EXCEPT
                          ![h].closed = TRUE, ![h].pc = "done"]
    /\ RequestUnchanged

NextPair ==
    \/ Startup
    \/ pairStart \/ pairOpened \/ pairItem \/ pairFinal

SpecPair == Init /\ [][NextPair]_vars

(***************************************************************************)
(* SpecCli: one interactive CLI session.  Five modes: the gRPC unary chat  *)
(* (src/unnamed/part_005), the gRPC streaming chat on readline             *)
(* (src/src/cli/commands/stream.ts) and on prompts (src/unnamed/part_006), *)
(* the HTTP unary and the HTTP streaming chat                              *)
(* (src/dist/cli/commands/chat.js).  The server is the environment: it     *)
(* may answer, fail, and deliver any chunks.  A step is one callback of    *)
(* the session; the 'error' and 'end' events of one gRPC call are emitted  *)
(* by the client library back to back when the status arrives, before any  *)
(* input can be read, and are one step.                                    *)
(***************************************************************************)
CliModes == {"grpcChat", "grpcStream", "grpcStreamPrompts", "httpChat", "httpStream"}
GrpcStreamModes == {"grpcStream", "grpcStreamPrompts"}
\* what the user may type; Undefined is an interrupted prompt (Ctrl+C)
UserInputs == {"hi", "", "exit"}
CliTexts == {"", "a", "b"}
\* the text the k-th chunk of a stream may carry: nothing, or its own letter
Letters == <<"a", "b", "c", "d">>
ChunkTextsAt(k) == {"", Letters[k]}
CliErrors == {"", "Internal Server Error"}
\* the events one stream call may deliver when it terminates
EventOrders == {<<"end">>, <<"error">>, <<"error", "end">>, <<"end", "error">>}
StatusCodes == {"UNAVAILABLE", "CANCELLED"}
\* err.code is read by the 'error' handler of part_006 only
CodesOf(mode, events) ==
    IF mode = "grpcStreamPrompts" /\ \E i \in 1..Len(events) : events[i] = "error"
    THEN StatusCodes ELSE {"UNAVAILABLE"}

Entry(role, text) == [role |-> role, parts |-> <<[text |-> text]>>]

\* history.push of the given entries, by a callback of turn c.turn
PushIn(c, entries) ==
    [c EXCEPT !.history = @ \o entries,
              !.pushedIn = @ \o [i \in 1..Len(entries) |-> c.turn]]

\* currentCall.cancel(): ends the call when it is still active
CancelCurrent(c) ==
    IF c.currentCall \in c.active
    THEN [c EXCEPT !.active = @ \ {c.currentCall},
                   !.cancelled = @ \cup {c.currentCall}]
    ELSE c

\* stream.ts:121-128: promptUser, up to rl.question.  rl.question on a
\* pending question only prints the prompt again.
promptUser(c) ==
    [(IF c.currentCall # 0 THEN CancelCurrent(c) ELSE c) EXCEPT
        !.currentCall = 0, !.phase = "asking"]

\* a loop head that drops the previous call without cancelling it
loopTopNoCancel(c) == [c EXCEPT !.currentCall = 0, !.phase = "asking"]
\* part_006:116-128: the head of the loop, up to `await prompts`
loopTop(c) ==
    [(IF c.currentCall # 0 THEN CancelCurrent(c) ELSE c) EXCEPT
        !.currentCall = 0, !.phase = "asking"]

\* the turn starts: a new userMessage and request, fresh locals
BeginTurn(c, input, sentHistory) ==
    [c EXCEPT !.turn = @ + 1, !.input = input, !.sentPrompt = input,
              !.sentHistory = sentHistory, !.chunks = 0, !.received = <<>>,
              !.accumulatedResponse = "", !.receivedError = FALSE]

\* the callbacks of the turn are over: its locals are out of scope
EndTurn(c) ==
    [c EXCEPT !.chunks = 0, !.received = <<>>, !.accumulatedResponse = "",
              !.receivedError = FALSE]

\* client.streamChat returned a call
CallCreated(c) ==
    [c EXCEPT !.currentCall = c.turn, !.active = @ \cup {c.turn}]

\* what the CLI command does first
cliStart ==
    /\ cli.mode = "none"
    /\ \E mode \in CliModes : cli' = [cli EXCEPT !.mode = mode, !.phase = "asking"]
    /\ RequestUnchanged0

\* an 'end' handler that records a model entry whatever was received
EndEntriesAlways(c) ==
    <<Entry("user", c.input), Entry("model", c.accumulatedResponse)>>
\* an 'end' handler that records the model entry before the user entry
EndEntriesModelFirst(c) ==
    IF ~c.receivedError /\ Truthy(c.accumulatedResponse)
    THEN <<Entry("model", c.accumulatedResponse), Entry("user", c.input)>>
    ELSE <<Entry("user", c.input)>>
\* stream.ts:186-196 / part_006:173-178: what the 'end' handler pushes
EndEntries(c) ==
    IF ~c.receivedError /\ Truthy(c.accumulatedResponse)
    THEN <<Entry("user", c.input), Entry("model", c.accumulatedResponse)>>
    ELSE <<Entry("user", c.input)>>

\* stream.ts:184-199
OnEndRl(c) == promptUser([PushIn(c, EndEntries(c)) EXCEPT !.currentCall = 0])
\* stream.ts:201-210
OnErrorRl(c) ==
    promptUser([CancelCurrent(PushIn([c EXCEPT !.receivedError = TRUE],
                                     <<Entry("user", c.input)>>))
                   EXCEPT !.currentCall = 0])
\* part_006:171-181, without the resolve
OnEndPrompts(c) == [PushIn(c, EndEntries(c)) EXCEPT !.currentCall = 0]
\* part_006:183-191, without the resolve / reject
OnErrorPrompts(c, code) ==
    [(IF code # "CANCELLED" THEN PushIn(c, <<Entry("user", c.input)>>) ELSE c) EXCEPT
        !.receivedError = TRUE, !.currentCall = 0]

OnEvent(c, event, code) ==
    IF c.mode = "grpcStream"
    THEN (IF event = "end" THEN OnEndRl(c) ELSE OnErrorRl(c))
    ELSE (IF event = "end" THEN OnEndPrompts(c) ELSE OnErrorPrompts(c, code))

\* stream.ts:128-164 and 220-229: the callback of rl.question
streamTurn ==
    /\ cli.mode = "grpcStream" /\ cli.phase = "asking" /\ cli.turn < MaxTurns
    /\ \E input \in UserInputs, setup \in {"ok", "null", "throws"} :
        cli' = IF input = "exit"
               THEN [CancelCurrent(cli) EXCEPT !.phase = "closed"]
               ELSE LET c == BeginTurn(cli, input, cli.history)
                    IN  CASE setup = "ok" -> [CallCreated(c) EXCEPT !.phase = "waiting"]
                          [] setup = "null" ->
                                 promptUser(PushIn(c, <<Entry("user", input)>>))
                          [] setup = "throws" ->
                                 promptUser([CancelCurrent(CallCreated(c)) EXCEPT
                                                !.currentCall = 0])
    /\ RequestUnchanged0

\* part_006:124-153 and 200-206: `await prompts` resolved
promptsTurn ==
    /\ cli.mode = "grpcStreamPrompts" /\ cli.phase = "asking" /\ cli.turn < MaxTurns
    /\ \E input \in UserInputs \cup {Undefined}, setup \in {"ok", "null", "throws"} :
        cli' = IF input = Undefined
               THEN [CancelCurrent(cli) EXCEPT !.phase = "closed"]
               ELSE IF ~Truthy(input) THEN loopTop(cli)
               ELSE LET c == BeginTurn(cli, input, cli.history)
                    IN  CASE setup = "ok" -> [CallCreated(c) EXCEPT !.phase = "waiting"]
                          [] setup = "null" -> loopTop(c)
                          [] setup = "throws" -> loopTop(CallCreated(c))
    /\ RequestUnchanged0

\* stream.ts:166-182 / part_006:155-169: the 'data' handler
streamData ==
    /\ cli.mode \in GrpcStreamModes /\ cli.phase = "waiting" /\ cli.chunks < MaxChunks
    /\ \E text \in ChunkTextsAt(cli.chunks + 1), error \in CliErrors :
        cli' = [cli EXCEPT
                   !.chunks = @ + 1,
                   !.received = Append(@, text),
                   !.receivedError = IF Truthy(error) THEN TRUE ELSE @,
                   !.accumulatedResponse =
                       IF ~Truthy(error) /\ Truthy(text) THEN @ \o text ELSE @]
    /\ RequestUnchanged0

\* stream.ts:184-210 / part_006:171-191: the status of the call arrives and
\* the client library emits 'end', 'error' or both
streamEvents ==
    /\ cli.mode \in GrpcStreamModes /\ cli.phase = "waiting"
    /\ \E events \in EventOrders : \E code \in CodesOf(cli.mode, events) :
        LET c0 == [cli EXCEPT !.active = @ \ {cli.currentCall},
                              !.delivered = @ \cup {cli.turn}]
            c1 == OnEvent(c0, events[1], code)
            c2 == IF Len(events) = 2 THEN OnEvent(c1, events[2], code) ELSE c1
        IN  cli' = EndTurn(IF cli.mode = "grpcStream" THEN c2 ELSE loopTop(c2))
    /\ RequestUnchanged0

\* part_005:115-143: `await prompts` resolved, up to `await new Promise`
grpcChatTurn ==
    /\ cli.mode = "grpcChat" /\ cli.phase = "asking" /\ cli.turn < MaxTurns
    /\ \E input \in UserInputs \cup {Undefined} :
        cli' = IF input = Undefined THEN [cli EXCEPT !.phase = "closed"]
               ELSE IF ~Truthy(input) THEN cli
               ELSE [BeginTurn(cli, input, cli.history) EXCEPT !.phase = "waiting"]
    /\ RequestUnchanged0

\* part_005:145-168: the callback of client.chat.  responseText is
\* candidates?.[0]?.content?.parts?.[0]?.text, error is response.error.
grpcChatReply ==
    /\ cli.mode = "grpcChat" /\ cli.phase = "waiting"
    /\ \E err \in BOOLEAN, responseText \in CliTexts \cup {Undefined}, error \in CliErrors :
        cli' = [(IF err THEN cli
                 ELSE IF Truthy(responseText)
                 THEN PushIn(cli, <<Entry("user", cli.input), Entry("model", responseText)>>)
                 ELSE PushIn(cli, <<Entry("user", cli.input)>>))
                   EXCEPT !.phase = "asking"]
    /\ RequestUnchanged0

\* a request that carries the whole history
SliceNone(h) == h
\* chat.js:119 and 321: history.slice(0, -1)
SliceLast(h) == SubSeq(h, 1, Len(h) - 1)

\* chat.js:105-125: the callback of rl.question, up to `await axios.post`
httpChatTurn ==
    /\ cli.mode = "httpChat" /\ cli.phase = "asking" /\ cli.turn < MaxTurns
    /\ \E input \in UserInputs :
        cli' = IF input = "exit" THEN [cli EXCEPT !.phase = "closed"]
               ELSE LET c == PushIn([cli EXCEPT !.turn = @ + 1],
                                    <<Entry("user", input)>>)
                    IN  [BeginTurn([c EXCEPT !.turn = @ - 1], input, SliceLast(c.history))
                            EXCEPT !.phase = "waiting"]
    /\ RequestUnchanged0

\* chat.js:126-150: axios.post settled.  text is the joined text of the
\* parts of candidates[0].
httpChatReply ==
    /\ cli.mode = "httpChat" /\ cli.phase = "waiting"
    /\ \E outcome \in {"throws", "empty", "nocontent", "text"}, text \in CliTexts :
        cli' = [(IF outcome = "text" THEN PushIn(cli, <<Entry("model", text)>>) ELSE cli)
                   EXCEPT !.phase = "asking"]
    /\ RequestUnchanged0

\* chat.js:295-325 and 367-375: the callback of rl.question
httpStreamTurn ==
    /\ cli.mode = "httpStream" /\ cli.phase = "asking" /\ cli.turn < MaxTurns
    /\ \E input \in UserInputs, setup \in {"ok", "throws"} :
        cli' = IF input = "exit" THEN [cli EXCEPT !.phase = "closed"]
               ELSE LET c == PushIn([cli EXCEPT !.turn = @ + 1],
                                    <<Entry("user", input)>>)
                    IN  [BeginTurn([c EXCEPT !.turn = @ - 1], input, SliceLast(c.history))
                            EXCEPT !.phase = IF setup = "ok" THEN "waiting" ELSE "asking"]
    /\ RequestUnchanged0

\* chat.js:326-364: es.onmessage and es.onerror
httpStreamEvent ==
    /\ cli.mode = "httpStream" /\ cli.phase = "waiting"
    /\ \E kind \in {"done", "error", "text", "onerror"},
          text \in ChunkTextsAt((cli.chunks % MaxChunks) + 1) :
        /\ kind = "text" => cli.chunks < MaxChunks
        /\ cli' = CASE kind = "done" ->
                           [EndTurn(PushIn(cli, <<Entry("model", cli.accumulatedResponse)>>))
                               EXCEPT !.phase = "asking"]
                    [] kind \in {"error", "onerror"} ->
                           [EndTurn(cli) EXCEPT !.phase = "asking"]
                    [] kind = "text" ->
                           [cli EXCEPT !.chunks = @ + 1, !.received = Append(@, text),
                                       !.accumulatedResponse = @ \o text]
    /\ RequestUnchanged0

NextCli ==
    \/ cliStart
    \/ streamTurn \/ promptsTurn \/ streamData \/ streamEvents
    \/ grpcChatTurn \/ grpcChatReply
    \/ httpChatTurn \/ httpChatReply
    \/ httpStreamTurn \/ httpStreamEvent

\* the session does not depend on the server's variant or environment
SpecCli == InitGrpc /\ [][NextCli]_vars

(***************************************************************************)
(* Properties.                                                             *)
(***************************************************************************)
GatedPaths == {"Chat", "StreamChat", "/v1/chat", "/v1/chat/stream"}
UnaryPaths == {"Chat", "/v1/chat"}
StreamPaths == {"StreamChat", "/v1/chat/stream"}

Received == req # NoReq
KeyMissingOrWrong ==
    SuppliedKey(req) = Undefined \/ SuppliedKey(req) # EXPECTED_API_KEY
Authenticated ==
    env["EXPECTED_API_KEY"] /\ SuppliedKey(req) = TheKey
Unauthenticated(r) == r.code \in {"401", "UNAUTHENTICATED"}
ValidationError(r) == r.code \in {"400", "INVALID_ARGUMENT"}

\* C1 (as stated): a request to one of the four operations whose key is
\* missing or differs from the expected key is answered unauthenticated
\* (401 / UNAUTHENTICATED) and causes no backend call.
C1_Original ==
    (Received /\ req.path \in GatedPaths /\ KeyMissingOrWrong)
        => (Unauthenticated(reply) /\ backendCalls = 0)

\* C1 (amended): such a request never causes a backend call, and it is
\* answered unauthenticated whenever the server has an expected key
\* configured (the HTTP server starts without one and then answers 500).
C1_Gate ==
    (Received /\ req.path \in GatedPaths /\ KeyMissingOrWrong)
        => /\ backendCalls = 0
           /\ env["EXPECTED_API_KEY"] => Unauthenticated(reply)

C1_Witness ==
    /\ Received /\ req.path = "StreamChat" /\ req.metadata = <<"k2">>
    /\ reply.code = "UNAUTHENTICATED" /\ backendCalls = 0

\* C3: GET /_health is answered 200 "OK" whatever X-API-Key header the
\* request carries, also none and a wrong one.
C3_HealthOpen ==
    (Received /\ req.path = "/_health")
        => (reply.code = "200" /\ reply.text = "OK")

\* C8: an authenticated request on any of the four operations whose prompt
\* is empty or absent is answered with a validation error (400 /
\* INVALID_ARGUMENT) and causes no backend call.
C8_Validation ==
    (Received /\ req.path \in GatedPaths /\ Authenticated
        /\ req.prompt \in {Undefined, ""})
        => (ValidationError(reply) /\ backendCalls = 0)

C8_Witness ==
    /\ Received /\ req.path = "/v1/chat/stream" /\ Authenticated
    /\ req.prompt = "" /\ reply.code = "400" /\ backendCalls = 0

\* C9: for a request with a non-empty prompt that reaches the backend, the
\* contents of the backend call are the request's history, unchanged and in
\* order, followed by the one turn {role: user, parts: [{text: prompt}]}.
C9_Contents ==
    (Received /\ req.path \in GatedPaths /\ Authenticated /\ req.prompt = "hi")
        => /\ backendCalls = 1
           /\ Len(contents) = Len(req.history) + 1
           /\ \A i \in 1..Len(req.history) : contents[i] = req.history[i]
           /\ contents[Len(contents)] =
                  [role |-> "user", parts |-> <<[text |-> req.prompt]>>]

C9_Witness ==
    /\ Received /\ variant = "grpc" /\ backendCalls = 1
    /\ Len(req.history) = 2 /\ req.history[1] # req.history[2]
    /\ Len(contents) = 3 /\ contents[2] = req.history[2]

RequiredFour(e) ==
    /\ e["EXPECTED_API_KEY"] /\ e["GCP_PROJECT_ID"]
    /\ e["GCP_REGION"] /\ e["VERTEX_AI_MODEL_ID"]

\* C10 (as stated): when the expected API key, the project, the region or
\* the model identifier is missing, the process of either variant never
\* listens and never receives a request.
C10_Original ==
    ~RequiredFour(env) => (proc # "listening" /\ ~Received)

\* C10 (amended): the gRPC server exits before listening when any of the
\* four is missing; the HTTP server exits before listening when the
\* project, the region or the model identifier (or its endpoint) is
\* missing, but a missing expected API key does not stop it.
C10_Startup ==
    /\ (variant = "grpc" /\ ~RequiredFour(env))
           => (proc \in {"boot", "exited"} /\ ~Received)
    /\ (variant = "http" /\ (~env["GCP_PROJECT_ID"] \/ ~env["GCP_REGION"]
                               \/ ~env["VERTEX_AI_MODEL_ID"]))
           => (proc \in {"boot", "exited"} /\ ~Received)

C10_Witness ==
    /\ variant = "grpc" /\ proc = "exited" /\ ~env["EXPECTED_API_KEY"]
    /\ env["GCP_PROJECT_ID"] /\ env["GCP_REGION"] /\ env["VERTEX_AI_MODEL_ID"]

\* a backend candidate that has a part whose text is a string
Qualifying(c) ==
    /\ c.content # NoContent
    /\ \E j \in 1..Len(c.content.parts) : IsString(c.content.parts[j].text)
NumQualifying(cs) == Cardinality({i \in 1..Len(cs) : Qualifying(cs[i])})

RECURSIVE QualifyingOnly(_)
QualifyingOnly(cs) ==
    IF cs = <<>> THEN <<>>
    ELSE IF Qualifying(Head(cs)) THEN <<Head(cs)>> \o QualifyingOnly(Tail(cs))
    ELSE QualifyingOnly(Tail(cs))

RECURSIVE StringTextParts(_)
StringTextParts(ps) ==
    IF ps = <<>> THEN <<>>
    ELSE IF IsString(Head(ps).text) THEN <<Head(ps)>> \o StringTextParts(Tail(ps))
    ELSE StringTextParts(Tail(ps))

FallbackText(res) ==
    IF res.blockReason # Undefined THEN BlockedText(res.blockReason) ELSE SorryText
IsSynthetic(c) ==
    \E t \in {SorryText} \cup {BlockedText(b) : b \in BlockReasons \ {Undefined}} :
        c.content.parts = <<[text |-> t]>>

\* the unary backend call resolved and the handler replied
UnaryAnswered ==
    Received /\ req.path \in UnaryPaths /\ pc = "done" /\ result # NoResult

\* C6: a backend unary result with no qualifying candidate yields a unary
\* response with exactly one synthetic candidate, whose text is "Response
\* blocked: " and the block reason when the backend signalled one, and
\* "Sorry, I could not generate a response." otherwise.
C6_Fallback ==
    (UnaryAnswered /\ NumQualifying(result.candidates) = 0)
        => /\ Len(reply.candidates) = 1
           /\ reply.candidates[1].content.parts = <<[text |-> FallbackText(result)]>>

\* the response keeps exactly the qualifying candidates, each with exactly
\* its string-text parts, in order
KeepsQualifying ==
    LET kept == QualifyingOnly(result.candidates)
    IN  /\ Len(reply.candidates) = NumQualifying(result.candidates)
        /\ Len(reply.candidates) = Len(kept)
        /\ \A i \in 1..Len(kept) :
               reply.candidates[i].content.parts = StringTextParts(kept[i].content.parts)
NoSynthetic == \A i \in 1..Len(reply.candidates) : ~IsSynthetic(reply.candidates[i])

\* the response has one candidate per backend candidate, in order, with one
\* part per backend part and "" in place of a text that is not a string
KeepsEvery ==
    /\ Len(reply.candidates) = Len(result.candidates)
    /\ \A i \in 1..Len(result.candidates) :
        LET c == result.candidates[i]
            n == IF c.content = NoContent THEN 0 ELSE Len(c.content.parts)
        IN  /\ Len(reply.candidates[i].content.parts) = n
            /\ \A j \in 1..n :
                   reply.candidates[i].content.parts[j].text =
                       (IF IsString(c.content.parts[j].text)
                        THEN c.content.parts[j].text ELSE "")

StreamDone ==
    Received /\ req.path \in StreamPaths /\ backendCalls = 1 /\ pc = "done"

\* the terminal chunk: is_final_chunk = true, or the SSE [DONE] event
IsFinalEvent(c) == c.is_final_chunk \/ c.text = "[DONE]"

RECURSIVE TextsOf(_, _)
\* the texts of the parts that carry a string text, in order; the empty
\* string counts as a text only when emptyCounts
TextsOf(ps, emptyCounts) ==
    IF ps = <<>> THEN <<>>
    ELSE IF IsString(Head(ps).text) /\ (emptyCounts \/ Head(ps).text # "")
    THEN <<Head(ps).text>> \o TextsOf(Tail(ps), emptyCounts)
    ELSE TextsOf(Tail(ps), emptyCounts)

\* out is one non-final chunk per text of texts, in order, then one final chunk
RelaysExactly(texts) ==
    /\ Len(out) = Len(texts) + 1
    /\ \A i \in 1..Len(texts) : out[i].text = texts[i] /\ ~IsFinalEvent(out[i])
    /\ IsFinalEvent(out[Len(out)])
FinalIsLast == \A i \in 1..Len(out) : IsFinalEvent(out[i]) => i = Len(out)

\* C2 (as stated): when the backend stream completes without failure, the
\* relay has written one non-final chunk per part whose text is a string,
\* in the backend's order, then exactly one final chunk, and nothing is
\* ever written after a final chunk.
C2_Original ==
    /\ (StreamDone /\ ~failed) => RelaysExactly(TextsOf(src, TRUE))
    /\ FinalIsLast

\* C2 (amended): as stated for /v1/chat/stream; StreamChat writes a chunk
\* only for a part whose text is a non-empty string, so there N counts the
\* parts with non-empty text.
C2_Relay ==
    /\ (StreamDone /\ ~failed) => RelaysExactly(TextsOf(src, variant = "http"))
    /\ FinalIsLast

C2_Witness ==
    /\ StreamDone /\ ~failed /\ variant = "grpc" /\ pulled = 2
    /\ Len(out) = 3 /\ out[1].text = "a" /\ out[2].text = "b"
    /\ out[3].is_final_chunk

\* C4: once the client has cancelled, no write to the client is attempted
\* any more, and the cancellation has reached the backend stream by the
\* time the handler returns.
C4_Cancel ==
    cancelled => (~wroteAfterCancel /\ (pc = "done" => backendReleased))

\* C5: a streaming request that failed after the relay had pulled one or
\* more elements of the backend stream has its output stream closed
\* (call.end / res.end) when the handler returns, also when the write of
\* the error chunk itself failed.
C5_Closed == (StreamDone /\ failed /\ pulled >= 1) => closed
\* a backend call of the request was rejected and the handler has returned
BackendFailed == Received /\ backendError # NoError /\ pc = "done"
GenericErrors == {"Internal Server Error", "Stream processing error"}

\* C11: after a failure of the backend call the client sees a generic
\* internal error that is the same whatever the backend's error detail:
\* a unary reply is status INTERNAL / 500 with the text "Internal Server
\* Error" and no candidates; on a stream no chunk carries the detail, and a
\* chunk that carries an error carries one of the fixed generic texts.
C11_Generic ==
    BackendFailed =>
        /\ req.path \in UnaryPaths =>
               reply = [code |-> IF variant = "grpc" THEN "INTERNAL" ELSE "500",
                        candidates |-> <<>>, error |-> "Internal Server Error",
                        text |-> Undefined]
        /\ req.path \in StreamPaths =>
               /\ reply = NoReply
               /\ \A i \in 1..Len(out) :
                      /\ out[i].text \notin ErrorDetails
                      /\ out[i].error \in {Undefined, Null} \cup GenericErrors

C11_Witness ==
    /\ BackendFailed /\ variant = "grpc" /\ req.path = "Chat"
    /\ backendError = "429 quota exceeded"
    /\ reply.code = "INTERNAL" /\ reply.error = "Internal Server Error"

\* C13 (as stated): on each of the four operations a request whose key is
\* missing or incorrect and whose prompt is empty is answered
\* unauthenticated, not with a validation error, and a validation error is
\* only ever the answer to a request the gate accepted.
C13_Original ==
    /\ (Received /\ req.path \in GatedPaths /\ KeyMissingOrWrong
            /\ req.prompt \in {Undefined, ""})
           => (Unauthenticated(reply) /\ ~ValidationError(reply))
    /\ (Received /\ ValidationError(reply)) => Authenticated

\* C13 (amended): such a request is never answered with a validation error
\* and never reaches the backend; it is answered unauthenticated whenever
\* the server has an expected key configured (the HTTP server without one
\* answers 500); a validation error is only ever the answer to a request
\* the gate accepted.
C13_GateFirst ==
    /\ (Received /\ req.path \in GatedPaths /\ KeyMissingOrWrong
            /\ req.prompt \in {Undefined, ""})
           => /\ ~ValidationError(reply)
              /\ backendCalls = 0
              /\ env["EXPECTED_API_KEY"] => Unauthenticated(reply)
    /\ (Received /\ ValidationError(reply)) => Authenticated

C13_Witness ==
    /\ Received /\ req.path = "Chat" /\ req.metadata = <<"k2">> /\ req.prompt = ""
    /\ reply.code = "UNAUTHENTICATED"

\* C14: a request issues at most one backend call, and after a backend
\* failure has been surfaced to the client exactly one call was issued.
C14_NoRetry ==
    /\ backendCalls <= 1
    /\ BackendFailed => backendCalls = 1

C14_Witness ==
    /\ BackendFailed /\ req.path = "Chat" /\ reply.code = "INTERNAL" /\ backendCalls = 1

ConfigError(r) == r.code = "500" /\ r.error = "Server configuration error"

\* C16: on a server without an expected key the gate answers every request
\* with the configuration error and never unauthenticated, whatever key
\* the client sent (the gRPC server without one stops at startup and runs
\* no gate); on a server with an expected key a missing or mismatching key
\* is answered unauthenticated and never with the configuration error.
C16_Distinct ==
    /\ (variant = "grpc" /\ ~env["EXPECTED_API_KEY"]) => (proc # "listening" /\ ~Received)
    /\ (Received /\ req.path \in GatedPaths /\ ~env["EXPECTED_API_KEY"])
           => (ConfigError(reply) /\ ~Unauthenticated(reply))
    /\ (Received /\ req.path \in GatedPaths /\ env["EXPECTED_API_KEY"] /\ KeyMissingOrWrong)
           => (Unauthenticated(reply) /\ ~ConfigError(reply))

C16_Witness ==
    /\ Received /\ variant = "http" /\ req.path = "/v1/chat" /\ ~env["EXPECTED_API_KEY"]
    /\ req.header = "k1" /\ ConfigError(reply)

HasNonEmptyText(c) ==
    \E j \in 1..Len(c.content.parts) : Truthy(c.content.parts[j].text)
OnlyStringTexts(c) ==
    /\ Len(c.content.parts) >= 1
    /\ \A j \in 1..Len(c.content.parts) : IsString(c.content.parts[j].text)

\* C17 (as stated): every candidate of a unary response of either variant
\* has a part with non-empty text.
C17_Original ==
    UnaryAnswered => \A i \in 1..Len(reply.candidates) : HasNonEmptyText(reply.candidates[i])

\* C17 (amended): every candidate of a /v1/chat response has one or more
\* parts and each part's text is a string, possibly the empty string; a
\* Chat response holds one candidate per backend candidate, whatever its
\* parts.
C17_StringText ==
    UnaryAnswered =>
        /\ variant = "http" =>
               \A i \in 1..Len(reply.candidates) : OnlyStringTexts(reply.candidates[i])
        /\ variant = "grpc" => Len(reply.candidates) = Len(result.candidates)

C17_Witness ==
    /\ UnaryAnswered /\ variant = "http"
    /\ Len(reply.candidates) = 1
    /\ reply.candidates[1].content.parts = <<[text |-> ""]>>
IsErrorChunk(c) == c.error \notin {Undefined, Null}
NumErrorChunks == Cardinality({i \in 1..Len(out) : IsErrorChunk(out[i])})
NoSuccessFinal == \A i \in 1..Len(out) : IsFinalEvent(out[i]) => IsErrorChunk(out[i])

\* the first n chunks of out are non-final chunks without error that carry,
\* in order, the first n of the given texts
RelayedPrefix(n, texts) ==
    /\ n <= Len(texts)
    /\ \A i \in 1..n :
           out[i].text = texts[i] /\ ~IsFinalEvent(out[i]) /\ ~IsErrorChunk(out[i])

\* C12 (as stated): a streaming request that failed after k chunks has
\* written those k chunks and then exactly one terminal chunk with empty
\* text, the error string and the final-chunk marker; it has written no
\* success final chunk and no second error chunk.
C12_Original ==
    (StreamDone /\ failed) =>
        /\ Len(out) >= 1
        /\ RelayedPrefix(Len(out) - 1, TextsOf(src, TRUE))
        /\ LET last == out[Len(out)]
           IN  last.text = "" /\ IsErrorChunk(last) /\ last.is_final_chunk
        /\ NumErrorChunks = 1
        /\ NoSuccessFinal

\* C12 (amended): such a request has written the k chunks and then at most
\* one error chunk, none when the write of the error chunk itself fails.
\* On StreamChat the error chunk has empty text, the error "Internal Server
\* Error" and the final-chunk marker; on /v1/chat/stream it is an event
\* that carries only the error string, without text and without marker.
\* No success final chunk is written and the error chunk comes last.
C12_ErrorChunk ==
    (StreamDone /\ failed) =>
        /\ NumErrorChunks <= 1
        /\ NoSuccessFinal
        /\ RelayedPrefix(Len(out) - NumErrorChunks, TextsOf(src, variant = "http"))
        /\ NumErrorChunks = 1 =>
               LET last == out[Len(out)]
               IN  IF variant = "grpc"
                   THEN /\ last.text = "" /\ last.is_final_chunk
                        /\ last.error = "Internal Server Error"
                   ELSE /\ last.text = Undefined /\ ~last.is_final_chunk
                        /\ last.error \in GenericErrors

C12_Witness ==
    /\ StreamDone /\ failed /\ variant = "grpc" /\ Len(out) = 2
    /\ out[1].text = "a" /\ ~out[1].is_final_chunk
    /\ out[2].text = "" /\ out[2].error = "Internal Server Error" /\ out[2].is_final_chunk

NumFinalEvents == Cardinality({i \in 1..Len(out) : IsFinalEvent(out[i])})

\* C15: when the backend stream was exhausted and the relay completed, out
\* holds exactly one final chunk, as its last chunk; its text is empty
\* ("[DONE]" on /v1/chat/stream), it carries no error, and its finish
\* reason is the one of the backend's aggregated result, "STOP" when that
\* result has none.
C15_Final ==
    (StreamDone /\ ~failed) =>
        /\ NumFinalEvents = 1
        /\ LET last == out[Len(out)]
           IN  /\ IsFinalEvent(last)
               /\ last.text = (IF variant = "grpc" THEN "" ELSE "[DONE]")
               /\ ~IsErrorChunk(last)
               /\ last.finishReason =
                      (IF aggregatedResponse = Undefined THEN "STOP" ELSE aggregatedResponse)

C15_Witness ==
    /\ StreamDone /\ ~failed /\ variant = "grpc" /\ pulled >= 1
    /\ aggregatedResponse = "MAX_TOKENS"
    /\ out[Len(out)].finishReason = "MAX_TOKENS" /\ out[Len(out)].is_final_chunk

RECURSIVE PartsWithText(_, _)
\* the parts that carry a string text, in order; the empty string counts as
\* a text only when emptyCounts
PartsWithText(ps, emptyCounts) ==
    IF ps = <<>> THEN <<>>
    ELSE IF IsString(Head(ps).text) /\ (emptyCounts \/ Head(ps).text # "")
    THEN <<Head(ps)>> \o PartsWithText(Tail(ps), emptyCounts)
    ELSE PartsWithText(Tail(ps), emptyCounts)

\* out is exactly one non-final chunk per given part, in order: the part's
\* text, its candidate's finish reason or none, no error
WrittenFor(ps) ==
    /\ Len(out) = Len(ps)
    /\ \A i \in 1..Len(ps) :
           /\ out[i].text = ps[i].text
           /\ out[i].finishReason =
                  (IF ps[i].finishReason = Undefined THEN Null ELSE ps[i].finishReason)
           /\ ~IsErrorChunk(out[i])
           /\ ~out[i].is_final_chunk

\* the relay waits for the next element of the backend stream
AwaitingNext == Received /\ req.path \in StreamPaths /\ pc = "stream_next"

\* C19 (as stated): whenever the relay is about to pull the next element
\* of the backend stream, the chunk of every part with a string text of
\* the elements pulled so far has been written, in order.
C19_Original == AwaitingNext => WrittenFor(PartsWithText(src, TRUE))

\* C19 (amended): as stated for /v1/chat/stream; StreamChat writes no chunk
\* for a part whose text is the empty string, so there the parts are those
\* with non-empty text.
C19_Immediate == AwaitingNext => WrittenFor(PartsWithText(src, variant = "http"))

C19_Witness ==
    /\ AwaitingNext /\ variant = "grpc" /\ pulled = 1 /\ pulled < MaxItems
    /\ Len(src) = 2 /\ Len(out) = 2
    /\ out[1].text = "a" /\ out[2].text = "b"
\* the lines the gate wrote carry none of the keys a client may offer
NoKeyMaterial ==
    \A i \in 1..Len(gateLog) :
        \A j \in 1..Len(gateLog[i].args) : gateLog[i].args[j] \notin ClientKeys
GateRejected == Received /\ (Unauthenticated(reply) \/ ConfigError(reply))

\* C20 (as stated): a rejection by the gate leaves one log line that names
\* the request path and holds no key material, so it is the same for every
\* key the client may have offered.
C20_Original ==
    /\ NoKeyMaterial
    /\ GateRejected => (Len(gateLog) = 1 /\ gateLog[1].args = <<req.path>>)

\* C20 (amended): a rejection by the gate leaves one log line that holds no
\* key material and is fixed by the variant, the server's configuration and
\* the path alone.  Only the 401 line of the HTTP gate names the request
\* path; the line of the gRPC gate and the configuration-error line of the
\* HTTP gate name no path.  An accepted request leaves no line.
C20_Log ==
    /\ NoKeyMaterial
    /\ (Received /\ ~GateRejected) => gateLog = <<>>
    /\ GateRejected =>
           /\ Len(gateLog) = 1
           /\ gateLog[1] =
                  (IF variant = "grpc"
                   THEN [level |-> "warn",
                         text |-> "Unauthorized access attempt: Missing or incorrect API key.",
                         args |-> <<>>]
                   ELSE IF env["EXPECTED_API_KEY"]
                   THEN [level |-> "warn",
                         text |-> "Unauthorized access attempt: Missing or incorrect API key. Path: ",
                         args |-> <<req.path>>]
                   ELSE [level |-> "error",
                         text |-> "FATAL SERVER ERROR: EXPECTED_API_KEY environment variable is not set!",
                         args |-> <<>>])

C20_Witness ==
    /\ GateRejected /\ variant = "http" /\ req.path = "/v1/chat" /\ req.header = "k2"
    /\ reply.code = "401" /\ Len(gateLog) = 1 /\ gateLog[1].args = <<"/v1/chat">>

\* the texts of the chunks a handler has written, in order
WrittenTexts(c) == [i \in 1..Len(c.out) |-> c.out[i].text]
\* the relay of a handler's own backend stream: one text per part the
\* variant writes a chunk for, then the final chunk once the handler is done
OwnRelay(c) ==
    TextsOf(c.src, variant = "http")
        \o (IF c.pc = "done" THEN <<IF variant = "grpc" THEN "" ELSE "[DONE]">> ELSE <<>>)

\* C18: under every interleaving of two concurrent streaming requests, the
\* chunks written to each client are exactly the relay of that request's
\* own backend stream, and no text of the other request's backend stream
\* is ever written to it.
C18_Isolated ==
    /\ \A h \in Handlers : WrittenTexts(calls[h]) = OwnRelay(calls[h])
    /\ \A i \in 1..Len(calls[1].out) : calls[1].out[i].text # "b"
    /\ \A i \in 1..Len(calls[2].out) : calls[2].out[i].text # "a"

C18_Witness ==
    /\ calls[1].pc = "stream_next" /\ calls[1].pulled = 1
    /\ calls[2].pc = "stream_next" /\ calls[2].pulled = 1
    /\ WrittenTexts(calls[1]) = <<"a">> /\ WrittenTexts(calls[2]) = <<"b">>
ChunkTexts(chunks) == [i \in 1..Len(chunks) |-> chunks[i].text]
RECURSIVE NonEmptyTexts(_)
NonEmptyTexts(ts) ==
    IF ts = <<>> THEN <<>>
    ELSE IF Head(ts) # "" THEN <<Head(ts)>> \o NonEmptyTexts(Tail(ts))
    ELSE NonEmptyTexts(Tail(ts))
\* the texts written so far, without those of a terminal or error chunk
RelayedTexts ==
    LET idx == {i \in 1..Len(out) : ~IsFinalEvent(out[i]) /\ ~IsErrorChunk(out[i])}
    IN  [i \in 1..Cardinality(idx) |-> out[i].text]
\* the relay runs or has completed, and no failure has occurred
RelayIntact == (AwaitingNext \/ StreamDone) /\ ~failed

\* C21 (as stated): for the backend stream pulled so far, the chunks the
\* gRPC relay writes and the chunks the HTTP relay writes carry the same
\* texts, in the same number and order, and these are the texts written to
\* the client of whichever variant runs.
C21_Original ==
    RelayIntact =>
        /\ ChunkTexts(GrpcChunks(src)) = ChunkTexts(HttpChunks(src))
        /\ RelayedTexts = ChunkTexts(HttpChunks(src))

\* C21 (amended): the two relays write the same non-empty texts, in the
\* same number and order; the HTTP relay also writes a chunk with empty
\* text for every part whose text is the empty string, which the gRPC
\* relay skips.
C21_SameNonEmpty ==
    RelayIntact =>
        /\ ChunkTexts(GrpcChunks(src)) = NonEmptyTexts(ChunkTexts(HttpChunks(src)))
        /\ ChunkTexts(HttpChunks(src)) = TextsOf(src, TRUE)
        /\ RelayedTexts = (IF variant = "grpc" THEN ChunkTexts(GrpcChunks(src))
                           ELSE ChunkTexts(HttpChunks(src)))

C21_Witness ==
    /\ StreamDone /\ ~failed /\ variant = "http" /\ Len(src) = 2
    /\ src[1].text = "" /\ src[2].text = "b"
    /\ RelayedTexts = <<"", "b">>
    /\ ChunkTexts(GrpcChunks(src)) = <<"b">>

\* C22: a unary request never gets a second reply, and once its handler
\* has returned (after a gate rejection, a missing prompt, a backend result
\* or a caught backend failure) it has got exactly one.
C22_OneReply ==
    (Received /\ req.path \in UnaryPaths) =>
        /\ replies <= 1
        /\ pc = "done" => replies = 1

C22_Witness ==
    /\ Received /\ req.path = "Chat" /\ pc = "done" /\ failed
    /\ reply.code = "INTERNAL" /\ replies = 1

GrpcStreamReceived == Received /\ variant = "grpc" /\ req.path = "StreamChat"

\* C23: every StreamChat invocation eventually ends its call (gate
\* rejection, missing prompt, completion of the finite backend stream,
\* caught failure), and once the call is ended nothing more is written to it.
C23_Ends ==
    /\ GrpcStreamReceived ~> closed
    /\ [][(GrpcStreamReceived /\ closed) => (out' = out /\ closed')]_vars

C23_Witness ==
    /\ GrpcStreamReceived /\ closed /\ failed /\ pulled = 1 /\ Len(out) = 1
    /\ out[1].text = "a"

\* C24: an OK reply of Chat carries an error string exactly when the
\* backend result has no candidates, and then its candidates are empty;
\* otherwise its error is null and it has one candidate per backend
\* candidate, in the backend's order.
C24_ErrorOrCandidates ==
    (UnaryAnswered /\ variant = "grpc" /\ reply.code = "OK") =>
        /\ (reply.error # Null) <=> (Len(result.candidates) = 0)
        /\ Len(result.candidates) = 0 =>
               (reply.candidates = <<>> /\ reply.error = FallbackText(result))
        /\ Len(result.candidates) > 0 => KeepsEvery

C24_Witness ==
    /\ UnaryAnswered /\ variant = "grpc" /\ reply.code = "OK" /\ reply.error = Null
    /\ Len(result.candidates) = 2 /\ Len(reply.candidates) = 2
    /\ reply.candidates[1].content.parts = <<[text |-> "a"]>>
    /\ reply.candidates[2].content.parts = <<[text |-> "b"]>>

(***************************************************************************)
(* The interactive CLI.                                                    *)
(***************************************************************************)
HttpModes == {"httpChat", "httpStream"}

\* C25: in the gRPC streaming CLI at most one stream call is active at any
\* time, the active call is the current one, and whenever the next input is
\* about to be read no earlier call is still active: it has ended or has
\* been cancelled.
C25_OneActive ==
    cli.mode \in GrpcStreamModes =>
        /\ Cardinality(cli.active) <= 1
        /\ cli.phase \in {"asking", "closed"} => cli.active = {}
        /\ cli.phase = "waiting" => cli.active = {cli.currentCall}

\* the second call is active after the first one had to be cancelled
C25_Witness ==
    /\ cli.mode \in GrpcStreamModes
    /\ cli.phase = "waiting" /\ cli.turn = 2
    /\ cli.cancelled = {1} /\ cli.active = {2}

RECURSIVE Concat(_)
Concat(texts) == IF texts = <<>> THEN "" ELSE Head(texts) \o Concat(Tail(texts))

\* C26: in the gRPC streaming CLI a step appends a 'model' entry only when
\* the call terminates, no error chunk or error event was seen before, the
\* text_chunk values received in the turn concatenate, in arrival order, to
\* a non-empty text, and that text is the entry's text.
C26_ModelOnCleanEnd ==
    [][cli.mode \in GrpcStreamModes =>
          \A i \in (Len(cli.history) + 1)..Len(cli'.history) :
              cli'.history[i].role = "model" =>
                  /\ cli.phase = "waiting"
                  /\ ~cli.receivedError
                  /\ Concat(cli.received) # ""
                  /\ cli'.history[i].parts[1].text = Concat(cli.received)]_vars

\* two chunks were received and their texts are the model entry, in order
C26_Witness ==
    /\ cli.mode \in GrpcStreamModes
    /\ \E i \in 1..Len(cli.history) : cli.history[i] = Entry("model", "ab")

UserEntriesOf(t) ==
    {i \in 1..Len(cli.history) : cli.pushedIn[i] = t /\ cli.history[i].role = "user"}

\* C27: in the gRPC streaming CLI the user message of every turn whose call
\* delivered its terminating events is in the history exactly once.
C27_UserOnce ==
    cli.mode \in GrpcStreamModes =>
        \A t \in cli.delivered : Cardinality(UserEntriesOf(t)) = 1

ModelAfterUser ==
    \A i \in 1..Len(cli.history) :
        cli.history[i].role = "model" =>
            /\ i > 1
            /\ cli.history[i - 1].role = "user"
            /\ cli.pushedIn[i - 1] = cli.pushedIn[i]

\* C28: in every CLI mode each step leaves the entries already in the
\* history in place and unchanged, and every 'model' entry directly follows
\* a 'user' entry pushed in the same turn.
C28_GrowsInPairs ==
    /\ []ModelAfterUser
    /\ [][/\ Len(cli'.history) >= Len(cli.history)
          /\ SubSeq(cli'.history, 1, Len(cli.history)) = cli.history]_vars

\* the second turn of a session got its answer
C28_Witness ==
    /\ Len(cli.history) = 4
    /\ cli.history[4].role = "model" /\ cli.pushedIn[4] = 2
    /\ cli.history[2].role = "model" /\ cli.pushedIn[2] = 1

\* C29: while a request of the HTTP CLI is out, the history it carries is
\* exactly the entries pushed in earlier turns, so the contents the server
\* builds from it end with the current prompt and hold no other entry of
\* the current turn.
C29_PromptOnce ==
    (cli.mode \in HttpModes /\ cli.phase = "waiting") =>
        LET sent == HttpContents([prompt |-> cli.sentPrompt,
                                      history |-> cli.sentHistory])
            n == Cardinality({i \in 1..Len(cli.history) : cli.pushedIn[i] < cli.turn})
        IN  /\ cli.sentHistory = SubSeq(cli.history, 1, n)
            /\ \A i \in 1..n : cli.pushedIn[i] < cli.turn
            /\ Len(sent) = n + 1
            /\ sent[n + 1] = UserTurn(cli.input)
            /\ sent[n + 1] = cli.history[n + 1]
            /\ Len(cli.history) = n + 1

\* the second request carries the two entries of the first turn
C29_Witness ==
    /\ cli.mode \in HttpModes /\ cli.phase = "waiting"
    /\ cli.turn = 2 /\ Len(cli.sentHistory) = 2
    /\ cli.sentHistory[2].role = "model"

====
